---- MODULE Spec2Model ----
(***************************************************************************)
(* A model of the geodetic utilities (nhe.geo._utils) and of the point     *)
(* source (openquake.hazardlib.source.point.PointSource).                  *)
(*                                                                         *)
(* Numbers.  Longitudes and latitudes are integer degrees.  Every other    *)
(* quantity (depths, areas, lengths, probabilities, rates) is an exact     *)
(* rational <<n, d>> with d > 0 in lowest terms: the model follows the     *)
(* arithmetic of the code over the reals, not its floating-point rounding. *)
(***************************************************************************)
EXTENDS Integers, Sequences, FiniteSets, TLC

VARIABLES
    call,      \* the call under study: [fn, args]
    ret,       \* its outcome: [status, exc, value]
    self,      \* the fields of the PointSource object
    gen,       \* the generator made by _iter_ruptures_at_location
    ruptures   \* the ruptures the generator has yielded so far, in order

vars == <<call, ret, self, gen, ruptures>>

(***************************************************************************)
(* Bounds of the model.                                                    *)
(***************************************************************************)
MaxPoints == 3      \* longest point collection given to the bounding box
MaxDepth == 4       \* deepest seismogenic or hypocenter depth drawn, in km
MaxMags == 2        \* most magnitude bins of a source
MaxPlanes == 2      \* most nodal planes of a source
MaxHypos == 2       \* most hypocenter depths of a source

(***************************************************************************)
(* Outcomes of a call.                                                     *)
(***************************************************************************)
Pending == [status |-> "pending", exc |-> "", value |-> <<>>]
Returned(v) == [status |-> "returned", exc |-> "", value |-> v]
Raised(e) == [status |-> "raised", exc |-> e, value |-> <<>>]

(***************************************************************************)
(* Sequence helpers standing for Python's built-ins.                       *)
(***************************************************************************)
Range(s) == {s[i] : i \in 1..Len(s)}
SetMin(S) == CHOOSE m \in S : \A x \in S : m <= x
SetMax(S) == CHOOSE m \in S : \A x \in S : m >= x

(***************************************************************************)
(* Exact rational arithmetic, standing for Python's float operators.       *)
(***************************************************************************)
RECURSIVE GCD(_, _)
GCD(a, b) == IF b = 0 THEN a ELSE GCD(b, a % b)

Abs(n) == IF n < 0 THEN 0 - n ELSE n

Q(n, d) ==
    LET g == GCD(Abs(n), Abs(d))
        sgn == IF d < 0 THEN -1 ELSE 1
    IN <<(sgn * n) \div g, (sgn * d) \div g>>

Zero == Q(0, 1)
RAdd(a, b) == Q(a[1] * b[2] + b[1] * a[2], a[2] * b[2])
RSub(a, b) == Q(a[1] * b[2] - b[1] * a[2], a[2] * b[2])
RMul(a, b) == Q(a[1] * b[1], a[2] * b[2])
RDiv(a, b) == Q(a[1] * b[2], a[2] * b[1])
RNeg(a) == <<0 - a[1], a[2]>>
RAbs(a) == <<Abs(a[1]), a[2]>>
RLt(a, b) == a[1] * b[2] < b[1] * a[2]
RLe(a, b) == a[1] * b[2] <= b[1] * a[2]

\* math.sqrt, exact on the squares of rationals, which are the only values
\* the inputs below give it
ISqrt(n) == CHOOSE r \in 0..n : r * r = n
RSqrt(a) == <<ISqrt(a[1]), ISqrt(a[2])>>

(***************************************************************************)
(* math.sin and math.cos of an angle in degrees.  The angles are the       *)
(* multiples of 90 degrees, shifted by nothing or by one of the two acute  *)
(* angles of the 3-4-5 triangle, whose sine and cosine are rational:       *)
(* 37 stands for atan(3/4) = 36.87 and 53 for atan(4/3) = 53.13 degrees.   *)
(***************************************************************************)
AcuteSin(r) == CASE r = 0 -> Q(0, 1) [] r = 37 -> Q(3, 5) [] r = 53 -> Q(4, 5)
AcuteCos(r) == CASE r = 0 -> Q(1, 1) [] r = 37 -> Q(4, 5) [] r = 53 -> Q(3, 5)

Sin(deg) ==
    LET a == deg % 360
        quadrant == a \div 90
        r == a % 90
    IN CASE quadrant = 0 -> AcuteSin(r)
         [] quadrant = 1 -> AcuteCos(r)
         [] quadrant = 2 -> RNeg(AcuteSin(r))
         [] quadrant = 3 -> RNeg(AcuteCos(r))

Cos(deg) == Sin(deg + 90)

(***************************************************************************)
(* nhe/geo/_utils.py : get_longitudinal_extent                             *)
(***************************************************************************)
get_longitudinal_extent_no_west_wrap(lon1, lon2) ==
    LET extent == lon2 - lon1 IN
    IF extent > 180 THEN -360 + extent
    ELSE extent

get_longitudinal_extent_wrap_at_180(lon1, lon2) ==
    LET extent == lon2 - lon1 IN
    IF extent >= 180 THEN -360 + extent
    ELSE IF extent < -180 THEN 360 + extent
    ELSE extent

get_longitudinal_extent(lon1, lon2) ==
    LET extent == lon2 - lon1 IN
    IF extent > 180 THEN -360 + extent
    ELSE IF extent < -180 THEN 360 + extent
    ELSE extent

(***************************************************************************)
(* nhe/geo/_utils.py : get_spherical_bounding_box                          *)
(* min() and max() over an empty generator raise ValueError in Python.     *)
(***************************************************************************)
PositiveLons_below_180(lons) ==
    {lons[i] : i \in {j \in 1..Len(lons) : lons[j] > 0 /\ lons[j] < 180}}

PositiveLons(lons) == {lons[i] : i \in {j \in 1..Len(lons) : lons[j] > 0}}
NegativeLons(lons) == {lons[i] : i \in {j \in 1..Len(lons) : lons[j] < 0}}

AllWithinArc(west, east, lons) ==
    \A i \in 1..Len(lons) :
        /\ get_longitudinal_extent(west, lons[i]) >= 0
        /\ get_longitudinal_extent(lons[i], east) >= 0

get_spherical_bounding_box_naive(lons, lats) ==
    Returned(<<SetMin(Range(lons)), SetMax(Range(lons)),
               SetMax(Range(lats)), SetMin(Range(lats))>>)

get_spherical_bounding_box(lons, lats) ==
    LET north == SetMax(Range(lats))
        south == SetMin(Range(lats))
        west0 == SetMin(Range(lons))
        east0 == SetMax(Range(lons))
    IN
    IF ~((-180 < west0 /\ west0 <= 180) /\ (-180 < east0 /\ east0 <= 180))
    THEN Raised("AssertionError")
    ELSE IF get_longitudinal_extent(west0, east0) < 0
    THEN IF PositiveLons(lons) = {} \/ NegativeLons(lons) = {}
         THEN Raised("ValueError")
         ELSE LET west == SetMin(PositiveLons(lons))
                  east == SetMax(NegativeLons(lons))
              IN IF ~AllWithinArc(west, east, lons)
                 THEN Raised("RuntimeError")
                 ELSE Returned(<<west, east, north, south>>)
    ELSE Returned(<<west0, east0, north, south>>)

(***************************************************************************)
(* The values of the point source's variables while no source exists.      *)
(***************************************************************************)
NoSource == [constructed |-> FALSE]
NoGenerator == [state |-> "none"]

(***************************************************************************)
(* Inputs of the geodetic utilities.                                       *)
(***************************************************************************)
ExtentLons == {lon \in -179..180 : lon % 15 = 0 \/ lon \in {-179, -1, 1, 179}}
BoxLons == {lon \in -179..180 : lon % 45 = 0 \/ lon \in {-179, 179}}
BoxLats == {-10, 20}

ExtentCalls ==
    {[fn |-> "get_longitudinal_extent", args |-> <<lon1, lon2>>] :
        lon1 \in ExtentLons, lon2 \in ExtentLons}

BoxCall(lons, lats) ==
    [fn |-> "get_spherical_bounding_box", args |-> <<lons, lats>>]

(***************************************************************************)
(* The specification of the geodetic utilities: a call is drawn, then the  *)
(* function is applied to it.                                              *)
(***************************************************************************)
InitGeo ==
    /\ \/ call \in ExtentCalls
       \/ \E k \in 1..MaxPoints :
              \E lons \in [1..k -> BoxLons], lats \in [1..k -> BoxLats] :
                  call = BoxCall(lons, lats)
    /\ ret = Pending
    /\ self = NoSource
    /\ gen = NoGenerator
    /\ ruptures = <<>>

CallLongitudinalExtent ==
    /\ call.fn = "get_longitudinal_extent"
    /\ ret.status = "pending"
    /\ ret' = Returned(get_longitudinal_extent(call.args[1], call.args[2]))
    /\ UNCHANGED <<call, self, gen, ruptures>>

CallSphericalBoundingBox ==
    /\ call.fn = "get_spherical_bounding_box"
    /\ ret.status = "pending"
    /\ ret' = get_spherical_bounding_box(call.args[1], call.args[2])
    /\ UNCHANGED <<call, self, gen, ruptures>>

NextGeo == CallLongitudinalExtent \/ CallSphericalBoundingBox

SpecGeo == InitGeo /\ [][NextGeo]_vars

(***************************************************************************)
(* Claims about the geodetic utilities, checked under SpecGeo.             *)
(***************************************************************************)
ExtentReturned ==
    call.fn = "get_longitudinal_extent" /\ ret.status = "returned"

BoxDone ==
    call.fn = "get_spherical_bounding_box" /\ ret.status # "pending"

BoxReturned ==
    call.fn = "get_spherical_bounding_box" /\ ret.status = "returned"

\* C6 as stated: for lon1, lon2 in (-180, 180] the longitudinal extent lies
\* in the half-open interval (-180, 180], never exactly -180, and equals
\* lon2 - lon1 modulo 360.
C6_ExtentInHalfOpenInterval ==
    ExtentReturned =>
        /\ -180 < ret.value /\ ret.value <= 180
        /\ (ret.value - (call.args[2] - call.args[1])) % 360 = 0

\* C6 amended: the longitudinal extent lies in the closed interval
\* [-180, 180] and equals lon2 - lon1 modulo 360; it is -180 only when
\* lon2 - lon1 is exactly -180.
C6_ExtentInClosedInterval ==
    ExtentReturned =>
        /\ -180 <= ret.value /\ ret.value <= 180
        /\ (ret.value - (call.args[2] - call.args[1])) % 360 = 0
        /\ (ret.value = -180 => call.args[2] - call.args[1] = -180)

C6_Witness ==
    ExtentReturned /\ ret.value = -180

\* C7: the longitudinal extent is antisymmetric,
\* extent(lon1, lon2) = -extent(lon2, lon1), for every pair of longitudes
\* in (-180, 180] that do not differ by exactly 180 degrees.
C7_ExtentAntisymmetric ==
    ExtentReturned =>
        LET lon1 == call.args[1]
            lon2 == call.args[2]
        IN (lon2 - lon1 # 180 /\ lon2 - lon1 # -180) =>
               ret.value = 0 - get_longitudinal_extent(lon2, lon1)

C7_Witness ==
    ExtentReturned /\ call.args[2] - call.args[1] < -180 /\ ret.value > 0

\* C8: a returned bounding box has north/south the max/min latitude; west
\* and east are the min and max longitude or, when that pair has negative
\* extent, the minimum positive and maximum negative longitude; west and
\* east lie in (-180, 180]; the extent from west to east is in [0, 180];
\* and every input longitude is within the arc from west to east.
C8_BoundingBoxContract ==
    BoxReturned =>
        LET lons == call.args[1]
            lats == call.args[2]
            west == ret.value[1]
            east == ret.value[2]
            north == ret.value[3]
            south == ret.value[4]
            lo == SetMin(Range(lons))
            hi == SetMax(Range(lons))
        IN /\ north = SetMax(Range(lats))
           /\ south = SetMin(Range(lats))
           /\ IF get_longitudinal_extent(lo, hi) >= 0
              THEN west = lo /\ east = hi
              ELSE /\ west \in Range(lons) /\ west > 0
                   /\ \A i \in 1..Len(lons) : lons[i] > 0 => west <= lons[i]
                   /\ east \in Range(lons) /\ east < 0
                   /\ \A i \in 1..Len(lons) : lons[i] < 0 => east >= lons[i]
           /\ -180 < west /\ west <= 180
           /\ -180 < east /\ east <= 180
           /\ get_longitudinal_extent(west, east) >= 0
           /\ get_longitudinal_extent(west, east) <= 180
           /\ \A i \in 1..Len(lons) :
                  /\ get_longitudinal_extent(west, lons[i]) >= 0
                  /\ get_longitudinal_extent(lons[i], east) >= 0

\* a box across the antimeridian was returned
C8_Witness ==
    BoxReturned /\ ret.value[1] > 0 /\ ret.value[2] < 0
                /\ Len(call.args[1]) >= 3

\* Some arc of at most 180 degrees of longitude holds every longitude: if
\* one does, the arc that starts at its westernmost input longitude does.
HasArcOfAtMost180(lons) ==
    \E i \in 1..Len(lons) :
        \A j \in 1..Len(lons) : (lons[j] - lons[i]) % 360 <= 180

\* C9 as stated: the bounding box fails with RuntimeError (ambiguous
\* hemisphere) exactly when no arc of at most 180 degrees of longitude
\* holds all the input longitudes.
C9_RaisesIffWiderThan180 ==
    BoxDone =>
        ((ret.status = "raised" /\ ret.exc = "RuntimeError")
            <=> ~HasArcOfAtMost180(call.args[1]))

(***************************************************************************)
(* Collaborators of the point source that live outside its file.           *)
(***************************************************************************)
\* Point.point_at in the flat local model: longitude and latitude are the
\* east and north coordinates of the point in km on the plane tangent at
\* the source, the azimuth is measured clockwise from north, and depth
\* grows downward.
point_at(point, horizontal_distance, vertical_increment, azimuth) ==
    [longitude |-> RAdd(point.longitude,
                        RMul(horizontal_distance, Sin(azimuth))),
     latitude |-> RAdd(point.latitude,
                       RMul(horizontal_distance, Cos(azimuth))),
     depth |-> RAdd(point.depth, vertical_increment)]

\* Point(longitude, latitude, depth)
Point(longitude, latitude, depth) ==
    [longitude |-> longitude, latitude |-> latitude, depth |-> depth]

\* PlanarSurface(mesh_spacing, strike, dip, top_left, top_right,
\*               bottom_right, bottom_left)
PlanarSurface(mesh_spacing, strike, dip, top_left, top_right, bottom_right, bottom_left) ==
    [mesh_spacing |-> mesh_spacing, strike |-> strike, dip |-> dip,
     top_left |-> top_left, top_right |-> top_right,
     bottom_right |-> bottom_right, bottom_left |-> bottom_left]

\* ProbabilisticRupture(mag, rake, tectonic_region_type, hypocenter,
\*                      surface, source_typology, occurrence_rate,
\*                      temporal_occurrence_model)
ProbabilisticRupture(mag, rake, tectonic_region_type, hypocenter, surface, source_typology, occurrence_rate, temporal_occurrence_model) ==
    [mag |-> mag, rake |-> rake,
     tectonic_region_type |-> tectonic_region_type,
     hypocenter |-> hypocenter, surface |-> surface,
     source_typology |-> source_typology,
     occurrence_rate |-> occurrence_rate,
     temporal_occurrence_model |-> temporal_occurrence_model]

\* BaseMSR.get_median_area: the magnitude-scaling relationship, a table
\* that is non-decreasing in the magnitude for every rake and whose areas
\* (km2) are squares.
get_median_area(msr, mag, rake) ==
    LET side == 2 * (mag - 4) IN
    IF rake = 90 THEN Q(4 * side * side, 1) ELSE Q(side * side, 1)

\* float(prob): a PMF probability is a Decimal <<digits, exponent>> that
\* stands for digits * 10^-exponent; the probabilities of the model are
\* binary fractions, which float() converts without rounding.
RECURSIVE Pow10(_)
Pow10(e) == IF e = 0 THEN 1 ELSE 10 * Pow10(e - 1)
float(prob) == Q(prob[1], Pow10(prob[2]))

(***************************************************************************)
(* openquake/hazardlib/source/point.py : PointSource.__init__              *)
(* args holds the constructor's arguments; the result is the outcome and   *)
(* the object's fields.                                                    *)
(***************************************************************************)
AllHypocentersInside_lower_only(upper, lower, data) ==
    \A n \in 1..Len(data) : RLe(data[n][2], lower)

AllHypocentersInside_upper_only(upper, lower, data) ==
    \A n \in 1..Len(data) : RLe(upper, data[n][2])

AllHypocentersInside(upper, lower, data) ==
    \A n \in 1..Len(data) : RLe(upper, data[n][2]) /\ RLe(data[n][2], lower)

Fields(args) ==
    [constructed |-> TRUE,
     tectonic_region_type |-> args.tectonic_region_type,
     mfd |-> args.mfd,
     rupture_mesh_spacing |-> args.rupture_mesh_spacing,
     magnitude_scaling_relationship |-> args.magnitude_scaling_relationship,
     rupture_aspect_ratio |-> args.rupture_aspect_ratio,
     location |-> args.location,
     nodal_plane_distribution |-> args.nodal_plane_distribution,
     hypocenter_distribution |-> args.hypocenter_distribution,
     upper_seismogenic_depth |-> args.upper_seismogenic_depth,
     lower_seismogenic_depth |-> args.lower_seismogenic_depth]

__init__(args) ==
    IF RLt(args.upper_seismogenic_depth, Zero)
    THEN [outcome |-> Raised("ValueError"), fields |-> NoSource]
    ELSE IF ~RLt(args.upper_seismogenic_depth, args.lower_seismogenic_depth)
    THEN [outcome |-> Raised("ValueError"), fields |-> NoSource]
    ELSE IF ~AllHypocentersInside(args.upper_seismogenic_depth,
                                  args.lower_seismogenic_depth,
                                  args.hypocenter_distribution)
    THEN [outcome |-> Raised("ValueError"), fields |-> NoSource]
    ELSE [outcome |-> Returned(<<>>), fields |-> Fields(args)]

(***************************************************************************)
(* point.py : PointSource._get_rupture_dimensions                          *)
(***************************************************************************)
clip_to_max_width_keeping_length(area, rup_length, rup_width, max_width) ==
    IF RLt(max_width, rup_width)
    THEN <<rup_length, max_width>>
    ELSE <<rup_length, rup_width>>

\* lines 232-235
clip_to_max_width(area, rup_length, rup_width, max_width) ==
    IF RLt(max_width, rup_width)
    THEN <<RDiv(area, max_width), max_width>>
    ELSE <<rup_length, rup_width>>

\* lines 225-231
dimensions_of_area(src, nodal_plane, area, rup_length) ==
    clip_to_max_width(
        area, rup_length, RDiv(area, rup_length),
        RDiv(RSub(src.lower_seismogenic_depth, src.upper_seismogenic_depth),
             Sin(nodal_plane.dip)))

_get_rupture_dimensions(src, mag, nodal_plane) ==
    dimensions_of_area(
        src, nodal_plane,
        get_median_area(src.magnitude_scaling_relationship, mag,
                        nodal_plane.rake),
        RSqrt(RMul(get_median_area(src.magnitude_scaling_relationship, mag,
                                   nodal_plane.rake),
                   src.rupture_aspect_ratio)))

(***************************************************************************)
(* point.py : PointSource._get_rupture_surface                             *)
(***************************************************************************)
\* lines 277-288: how far the rupture centre is moved vertically
vshift_below_top_never_up(vshift2) == Zero

vshift_below_top(vshift2) ==
    IF RLt(Zero, vshift2) THEN Zero ELSE vshift2

vshift_from_top(src, hypocenter, hheight, vshift) ==
    IF RLt(vshift, Zero)
    THEN vshift_below_top(RSub(RSub(src.lower_seismogenic_depth,
                                    hypocenter.depth), hheight))
    ELSE vshift

rupture_vshift(src, hypocenter, hheight) ==
    vshift_from_top(src, hypocenter, hheight,
                    RAdd(RSub(src.upper_seismogenic_depth, hypocenter.depth),
                         hheight))

\* lines 294-302: the rupture centre.  vshift / tan(rdip) is taken as
\* vshift * cos(rdip) / sin(rdip); at a dip of 90 degrees the code divides
\* by the float tan(pi/2) = 1.6e16 and moves the centre by less than
\* 1e-15 km, which is zero here.
rupture_center_always_down(hypocenter, vshift, dip, az_up, az_down) ==
    IF vshift # Zero
    THEN point_at(hypocenter,
                  RAbs(RDiv(RMul(vshift, Cos(dip)), Sin(dip))), vshift,
                  az_down)
    ELSE hypocenter

rupture_center(hypocenter, vshift, dip, az_up, az_down) ==
    IF vshift # Zero
    THEN point_at(hypocenter,
                  RAbs(RDiv(RMul(vshift, Cos(dip)), Sin(dip))), vshift,
                  IF RLt(vshift, Zero) THEN az_up ELSE az_down)
    ELSE hypocenter

\* lines 259-262: the azimuths of the moves along the plane
azimuth_right(nodal_plane) == nodal_plane.strike
azimuth_down(nodal_plane) == (azimuth_right(nodal_plane) + 90) % 360
azimuth_left(nodal_plane) == (azimuth_down(nodal_plane) + 90) % 360
azimuth_up(nodal_plane) == (azimuth_left(nodal_plane) + 90) % 360

\* lines 321-333: the top corners and the left corners, then the surface
surface_from_right_edge(src, nodal_plane, rup_length, right_bottom, right_top) ==
    PlanarSurface(src.rupture_mesh_spacing, nodal_plane.strike,
                  nodal_plane.dip,
                  point_at(right_top, rup_length, Zero,
                           azimuth_left(nodal_plane)),
                  right_top, right_bottom,
                  point_at(right_bottom, rup_length, Zero,
                           azimuth_left(nodal_plane)))

surface_from_right_bottom(src, nodal_plane, rup_length, rup_proj_height, rup_proj_width, right_bottom) ==
    surface_from_right_edge(
        src, nodal_plane, rup_length, right_bottom,
        point_at(right_bottom, rup_proj_width, RNeg(rup_proj_height),
                 azimuth_up(nodal_plane)))

surface_from_center_as_top_edge(src, nodal_plane, rup_length, rup_proj_height, rup_proj_width, center) ==
    surface_from_right_bottom(
        src, nodal_plane, rup_length, rup_proj_height, rup_proj_width,
        point_at(point_at(center, RDiv(rup_length, Q(2, 1)), Zero,
                          azimuth_right(nodal_plane)),
                 rup_proj_width, rup_proj_height,
                 azimuth_down(nodal_plane)))

\* lines 307-316: right_center, then right_bottom
surface_from_center(src, nodal_plane, rup_length, rup_proj_height, rup_proj_width, center) ==
    surface_from_right_bottom(
        src, nodal_plane, rup_length, rup_proj_height, rup_proj_width,
        point_at(point_at(center, RDiv(rup_length, Q(2, 1)), Zero,
                          azimuth_right(nodal_plane)),
                 RDiv(rup_proj_width, Q(2, 1)),
                 RDiv(rup_proj_height, Q(2, 1)),
                 azimuth_down(nodal_plane)))

\* lines 274-302: hheight, vshift and the rupture centre
surface_from_projections(src, nodal_plane, hypocenter, rup_length, rup_proj_height, rup_proj_width) ==
    surface_from_center(
        src, nodal_plane, rup_length, rup_proj_height, rup_proj_width,
        rupture_center(hypocenter,
                       rupture_vshift(src, hypocenter,
                                      RDiv(rup_proj_height, Q(2, 1))),
                       nodal_plane.dip,
                       azimuth_up(nodal_plane), azimuth_down(nodal_plane)))

\* lines 264-269: the rupture's height projected on the vertical plane and
\* its width projected on the horizontal one
surface_from_dimensions(src, nodal_plane, hypocenter, dims) ==
    surface_from_projections(
        src, nodal_plane, hypocenter, dims[1],
        RMul(dims[2], Sin(nodal_plane.dip)),
        RMul(dims[2], Cos(nodal_plane.dip)))

_get_rupture_surface(src, mag, nodal_plane, hypocenter) ==
    IF ~(RLe(src.upper_seismogenic_depth, hypocenter.depth)
         /\ RLe(hypocenter.depth, src.lower_seismogenic_depth))
    THEN Raised("AssertionError")
    ELSE Returned(surface_from_dimensions(
                      src, nodal_plane, hypocenter,
                      _get_rupture_dimensions(src, mag, nodal_plane)))

(***************************************************************************)
(* point.py : PointSource._get_max_rupture_projection_radius               *)
(* The radius sqrt(length^2 + width'^2) / 2 is irrational in general: the  *)
(* model keeps its square, (length^2 + width'^2) / 4, and compares         *)
(* squares where the code compares radii (both are non-negative).          *)
(***************************************************************************)
\* lines 103-105, squared
projection_radius_squared(rup_length, rup_width) ==
    RDiv(RAdd(RMul(rup_length, rup_length), RMul(rup_width, rup_width)),
         Q(4, 1))

radius_squared_of(dims, dip) ==
    projection_radius_squared(dims[1], RMul(dims[2], Cos(dip)))

RMax(a, b) == IF RLt(a, b) THEN b ELSE a

\* lines 98-108: the loop over the nodal planes, from the n-th on
RECURSIVE max_radius_loop(_, _, _, _)
max_radius_loop(src, max_mag, n, max_radius_sq) ==
    IF n > Len(src.nodal_plane_distribution)
    THEN max_radius_sq
    ELSE max_radius_loop(
             src, max_mag, n + 1,
             RMax(max_radius_sq,
                  radius_squared_of(
                      _get_rupture_dimensions(
                          src, max_mag, src.nodal_plane_distribution[n][2]),
                      src.nodal_plane_distribution[n][2].dip)))

_get_max_rupture_projection_radius_squared(src) ==
    max_radius_loop(src, src.mfd[Len(src.mfd)][1], 1, Zero)

(***************************************************************************)
(* point.py : PointSource._iter_ruptures_at_location, a generator.         *)
(* Calling it only makes the generator; each next() runs its body up to    *)
(* the next yield.  i, j, k are the positions of the three nested loops.   *)
(***************************************************************************)
NewGenerator(started_by, temporal_occurrence_model, location, rate_scaling_factor) ==
    [state |-> "created", started_by |-> started_by,
     temporal_occurrence_model |-> temporal_occurrence_model,
     location |-> location,
     rate_scaling_factor |-> rate_scaling_factor,
     i |-> 0, j |-> 0, k |-> 0, surface_calls |-> 0]

\* the nesting reversed: the magnitude loop moves first
NextPosition_depths_outermost(src, g) ==
    IF g.state = "created" THEN <<1, 1, 1>>
    ELSE IF g.i < Len(src.mfd) THEN <<g.i + 1, g.j, g.k>>
    ELSE IF g.j < Len(src.nodal_plane_distribution) THEN <<1, g.j + 1, g.k>>
    ELSE IF g.k < Len(src.hypocenter_distribution) THEN <<1, 1, g.k + 1>>
    ELSE <<Len(src.mfd) + 1, 1, 1>>

\* the loop positions after (i, j, k): the innermost loop moves first
NextPosition(src, g) ==
    IF g.state = "created" THEN <<1, 1, 1>>
    ELSE IF g.k < Len(src.hypocenter_distribution) THEN <<g.i, g.j, g.k + 1>>
    ELSE IF g.j < Len(src.nodal_plane_distribution) THEN <<g.i, g.j + 1, 1>>
    ELSE <<g.i + 1, 1, 1>>

\* lines 189-191
occurrence_rate_no_scaling(mag_occ_rate, np_prob, hc_prob, rate_scaling_factor) ==
    RMul(RMul(mag_occ_rate, float(np_prob)), float(hc_prob))

occurrence_rate(mag_occ_rate, np_prob, hc_prob, rate_scaling_factor) ==
    RMul(RMul(RMul(mag_occ_rate, float(np_prob)), float(hc_prob)),
         rate_scaling_factor)

\* lines 192-197: the surface is built, the rupture is yielded
yield_rupture(src, g, mag, np, hypocenter, rate, surface) ==
    IF surface.status = "raised"
    THEN [gen |-> [g EXCEPT !.state = "AssertionError"], yielded |-> <<>>]
    ELSE [gen |-> [g EXCEPT !.state = "suspended"],
          yielded |-> <<ProbabilisticRupture(
                           mag, np.rake, src.tectonic_region_type,
                           hypocenter, surface.value, "PointSource", rate,
                           g.temporal_occurrence_model)>>]

\* lines 186-192: the body of the innermost loop
loop_body(src, g, mag_entry, np_entry, hc_entry, hypocenter) ==
    yield_rupture(
        src, [g EXCEPT !.surface_calls = @ + 1],
        mag_entry[1], np_entry[2], hypocenter,
        occurrence_rate(mag_entry[2], np_entry[1], hc_entry[1],
                        g.rate_scaling_factor),
        _get_rupture_surface(src, mag_entry[1], np_entry[2], hypocenter))

\* lines 183-185: the three nested loops, resumed at position pos
resume_loops(src, g, pos) ==
    IF pos[1] > Len(src.mfd)
    THEN [gen |-> [g EXCEPT !.state = "exhausted"], yielded |-> <<>>]
    ELSE loop_body(
             src, [g EXCEPT !.i = pos[1], !.j = pos[2], !.k = pos[3]],
             src.mfd[pos[1]],
             src.nodal_plane_distribution[pos[2]],
             src.hypocenter_distribution[pos[3]],
             Point(g.location.longitude, g.location.latitude,
                   src.hypocenter_distribution[pos[3]][2]))

\* one next() on the generator: the new generator and what it yields
generator_next(src, g) ==
    IF g.state = "created" /\ ~RLt(Zero, g.rate_scaling_factor)
    THEN [gen |-> [g EXCEPT !.state = "AssertionError"], yielded |-> <<>>]
    ELSE resume_loops(src, g, NextPosition(src, g))

(***************************************************************************)
(* Inputs of the point source.                                             *)
(***************************************************************************)
NodalPlane(strike, dip, rake) == [strike |-> strike, dip |-> dip, rake |-> rake]

Origin == Point(Zero, Zero, Zero)
OtherLocation == Point(Q(3, 1), Q(-2, 1), Zero)

\* table entries <<probability, value>> and <<magnitude, annual rate>>
PlaneEntries ==
    {<<(<<5, 1>>), NodalPlane(0, 90, 0)>>,
     <<(<<25, 2>>), NodalPlane(90, 53, 90)>>,
     <<(<<125, 3>>), NodalPlane(217, 37, -90)>>}
HypoEntries ==
    {<<(<<5, 1>>), Q(0, 1)>>, <<(<<25, 2>>), Q(3, 1)>>,
     <<(<<125, 3>>), Q(6, 1)>>, <<(<<25, 2>>), Q(7, 1)>>}
MagEntries == {<<5, Q(1, 10)>>, <<6, Q(1, 50)>>, <<7, Q(1, 200)>>}

\* the tables of at most n entries of S, each entry at most once
Injective(f) == \A a, b \in DOMAIN f : a # b => f[a] # f[b]
TablesUpTo(S, n) ==
    UNION {{f \in [1..m -> S] : Injective(f)} : m \in 1..n}
\* the occurrence-rate tables: magnitudes ascending
Ascending(f) == \A a, b \in DOMAIN f : a < b => f[a][1] < f[b][1]
RateTablesUpTo(n) ==
    UNION {{f \in [1..m -> MagEntries] : Ascending(f)} : m \in 1..n}

CtorArgs(uppers, lowers, ratios, rate_tables, plane_tables, hypo_tables) ==
    [source_id : {"1"}, name : {"point"},
     tectonic_region_type : {"Active Shallow Crust"},
     mfd : rate_tables,
     rupture_mesh_spacing : {Q(1, 1)},
     magnitude_scaling_relationship : {"MSR"},
     rupture_aspect_ratio : ratios,
     upper_seismogenic_depth : uppers,
     lower_seismogenic_depth : lowers,
     location : {Origin},
     nodal_plane_distribution : plane_tables,
     hypocenter_distribution : hypo_tables]

SourceArgs ==
    CtorArgs({Q(-1, 1), Q(0, 1), Q(2, 1)}, {Q(2, 1), Q(6, 1)},
             {Q(1, 1), Q(4, 1)},
             RateTablesUpTo(MaxMags), TablesUpTo(PlaneEntries, MaxPlanes),
             TablesUpTo(HypoEntries, MaxHypos))

ScalingFactors == {Q(1, 2), Q(0, 1), Q(-1, 1)}

(***************************************************************************)
(* The specification of the point source: a source is constructed, then    *)
(* its ruptures are enumerated, any number of times.                       *)
(***************************************************************************)
Init ==
    /\ call = [fn |-> "none", args |-> <<>>]
    /\ ret = Pending
    /\ self = NoSource
    /\ gen = NoGenerator
    /\ ruptures = <<>>

Construct ==
    /\ call.fn = "none"
    /\ \E args \in SourceArgs :
        /\ call' = [fn |-> "__init__", args |-> args]
        /\ \E made \in {__init__(args)} :
            /\ ret' = made.outcome
            /\ self' = made.fields
    /\ UNCHANGED <<gen, ruptures>>

\* iter_ruptures(temporal_occurrence_model)
IterRuptures ==
    /\ self.constructed
    /\ gen.state \in {"none", "exhausted", "AssertionError"}
    /\ gen' = NewGenerator("iter_ruptures", "tom", self.location, Q(1, 1))
    /\ ruptures' = <<>>
    /\ UNCHANGED <<call, ret, self>>

\* _iter_ruptures_at_location(temporal_occurrence_model, location,
\*                            rate_scaling_factor), as the area source calls it
IterRupturesAtLocation ==
    /\ self.constructed
    /\ gen.state \in {"none", "exhausted", "AssertionError"}
    /\ \E factor \in ScalingFactors :
           gen' = NewGenerator("_iter_ruptures_at_location", "tom",
                               OtherLocation, factor)
    /\ ruptures' = <<>>
    /\ UNCHANGED <<call, ret, self>>

\* next() on the generator
GeneratorNext ==
    /\ gen.state \in {"created", "suspended"}
    /\ \E step \in {generator_next(self, gen)} :
        /\ gen' = step.gen
        /\ ruptures' = ruptures \o step.yielded
    /\ UNCHANGED <<call, ret, self>>

Next == Construct \/ IterRuptures \/ IterRupturesAtLocation \/ GeneratorNext

Spec == Init /\ [][Next]_vars

(***************************************************************************)
(* The specification of the rupture geometry: a constructed source and a   *)
(* call of _get_rupture_dimensions or _get_rupture_surface are drawn, then *)
(* the method is applied.                                                  *)
(***************************************************************************)
SurfaceRatios == {Q(1, 1), Q(4, 1), Q(1, 4)}
SurfaceMags == {5, 6, 7}
SurfacePlanes ==
    {NodalPlane(strike, dip, rake) :
        strike \in {0, 53, 90, 217}, dip \in {37, 53, 90}, rake \in {0, 90}}
\* hypocenter depths in steps of half a km
SurfaceHypocenters == {Point(Zero, Zero, Q(d, 2)) : d \in 0..(2 * MaxDepth)}

SurfaceArgs ==
    UNION {CtorArgs({Q(u, 1)}, {Q(l, 1) : l \in 0..MaxDepth}, SurfaceRatios,
                    {<<(<<6, Q(1, 50)>>)>>},
                    {<<(<<(<<1, 0>>), NodalPlane(0, 90, 0)>>)>>},
                    {<<(<<(<<1, 0>>), Q(u, 1)>>)>>}) : u \in 0..MaxDepth}

SurfaceSources ==
    {__init__(args).fields :
        args \in {a \in SurfaceArgs : __init__(a).outcome.status = "returned"}}

DimensionsCalls ==
    {[fn |-> "_get_rupture_dimensions", args |-> <<mag, np>>] :
        mag \in SurfaceMags, np \in SurfacePlanes}

SurfaceCalls ==
    {[fn |-> "_get_rupture_surface", args |-> <<mag, np, hypocenter>>] :
        mag \in SurfaceMags, np \in SurfacePlanes,
        hypocenter \in SurfaceHypocenters}

InitSurface ==
    /\ self \in SurfaceSources
    /\ call \in DimensionsCalls \cup SurfaceCalls
    /\ ret = Pending
    /\ gen = NoGenerator
    /\ ruptures = <<>>

CallRuptureDimensions ==
    /\ call.fn = "_get_rupture_dimensions"
    /\ ret.status = "pending"
    /\ ret' = Returned(_get_rupture_dimensions(self, call.args[1],
                                               call.args[2]))
    /\ UNCHANGED <<call, self, gen, ruptures>>

CallRuptureSurface ==
    /\ call.fn = "_get_rupture_surface"
    /\ ret.status = "pending"
    /\ ret' = _get_rupture_surface(self, call.args[1], call.args[2],
                                   call.args[3])
    /\ UNCHANGED <<call, self, gen, ruptures>>

NextSurface == CallRuptureDimensions \/ CallRuptureSurface

SpecSurface == InitSurface /\ [][NextSurface]_vars

(***************************************************************************)
(* Claims about the rupture geometry, checked under SpecSurface.           *)
(***************************************************************************)
Corners(surface) ==
    {surface.top_left, surface.top_right,
     surface.bottom_right, surface.bottom_left}

SurfaceReturned ==
    call.fn = "_get_rupture_surface" /\ ret.status = "returned"

DimensionsReturned ==
    call.fn = "_get_rupture_dimensions" /\ ret.status = "returned"

\* C1: for a hypocenter depth within [upper, lower] the four corners of the
\* rupture surface have a depth within [upper, lower], whichever branch of
\* the vertical shift is taken; such a call always returns a surface.
C1_CornersInsideSeismogenicLayer ==
    (/\ call.fn = "_get_rupture_surface"
     /\ ret.status # "pending"
     /\ RLe(self.upper_seismogenic_depth, call.args[3].depth)
     /\ RLe(call.args[3].depth, self.lower_seismogenic_depth)) =>
            /\ ret.status = "returned"
            /\ \A corner \in Corners(ret.value) :
                  /\ RLe(self.upper_seismogenic_depth, corner.depth)
                  /\ RLe(corner.depth, self.lower_seismogenic_depth)

\* the rupture was moved up: its bottom edge is at the lower depth, where
\* the hypocenter is, and its top edge is below the upper depth
C1_Witness ==
    /\ SurfaceReturned
    /\ call.args[3].depth = self.lower_seismogenic_depth
    /\ ret.value.bottom_right.depth = self.lower_seismogenic_depth
    /\ RLt(self.upper_seismogenic_depth, ret.value.top_left.depth)
    /\ RLt(ret.value.top_left.depth, ret.value.bottom_right.depth)

\* C2: the rupture dimensions multiply to the area of the magnitude-scaling
\* relationship, whether the width area / sqrt(area * aspect ratio) fits or
\* is clipped to (lower - upper) / sin(dip); the width never exceeds that
\* maximum, so width * sin(dip) never exceeds the layer's thickness.
C2_DimensionsPreserveArea ==
    DimensionsReturned =>
        LET mag == call.args[1]
            np == call.args[2]
            length == ret.value[1]
            width == ret.value[2]
            area == get_median_area(self.magnitude_scaling_relationship,
                                    mag, np.rake)
            thickness == RSub(self.lower_seismogenic_depth,
                              self.upper_seismogenic_depth)
            free_length == RSqrt(RMul(area, self.rupture_aspect_ratio))
            fits == RLe(RMul(RDiv(area, free_length), Sin(np.dip)), thickness)
        IN /\ RMul(length, width) = area
           /\ RLe(RMul(width, Sin(np.dip)), thickness)
           /\ (fits => length = free_length)
           /\ (~fits => RMul(width, Sin(np.dip)) = thickness)

\* the width was clipped
C2_Witness ==
    /\ DimensionsReturned
    /\ RMul(ret.value[2], Sin(call.args[2].dip))
         = RSub(self.lower_seismogenic_depth, self.upper_seismogenic_depth)
    /\ RLt(RSqrt(RMul(get_median_area(self.magnitude_scaling_relationship,
                                      call.args[1], call.args[2].rake),
                      self.rupture_aspect_ratio)),
           ret.value[1])

(***************************************************************************)
(* Claims about the point source, checked under Spec.                      *)
(***************************************************************************)
NM == Len(self.mfd)
NP == Len(self.nodal_plane_distribution)
ND == Len(self.hypocenter_distribution)

\* the entries of the three tables that the n-th combination is made of
MagEntryOf(n) == self.mfd[((n - 1) \div (NP * ND)) + 1]
PlaneEntryOf(n) == self.nodal_plane_distribution[(((n - 1) \div ND) % NP) + 1]
HypoEntryOf(n) == self.hypocenter_distribution[((n - 1) % ND) + 1]

Enumerating == gen.state # "none"

\* C3: an enumeration yields the ruptures of the combinations in the order
\* magnitudes (outermost), nodal planes, hypocenter depths (innermost); the
\* n-th rupture has the magnitude, the rake and the hypocenter (the
\* caller's longitude and latitude, the table's depth) of the n-th
\* combination; the surface is built once per rupture; and a finished
\* enumeration has yielded |magnitudes| * |planes| * |depths| ruptures.
C3_EnumerationOrder ==
    Enumerating =>
        /\ Len(ruptures) <= NM * NP * ND
        /\ \A n \in 1..Len(ruptures) :
              /\ ruptures[n].mag = MagEntryOf(n)[1]
              /\ ruptures[n].rake = PlaneEntryOf(n)[2].rake
              /\ ruptures[n].hypocenter
                   = Point(gen.location.longitude, gen.location.latitude,
                           HypoEntryOf(n)[2])
        /\ gen.surface_calls = Len(ruptures)
        /\ (gen.state = "exhausted" => Len(ruptures) = NM * NP * ND)

\* a finished enumeration over tables of two or more entries each
C3_Witness ==
    /\ Enumerating
    /\ gen.state = "exhausted"
    /\ NM >= 2 /\ NP >= 2 /\ ND >= 2
    /\ Len(ruptures) = NM * NP * ND

\* C4: the occurrence rate of every rupture is the product of the
\* magnitude's rate, the nodal plane's probability, the hypocenter depth's
\* probability and the rate scaling factor, which is 1 for iter_ruptures;
\* with a non-positive factor the enumeration fails before any rupture.
C4_OccurrenceRate ==
    Enumerating =>
        /\ \A n \in 1..Len(ruptures) :
              ruptures[n].occurrence_rate
                = RMul(RMul(RMul(MagEntryOf(n)[2], float(PlaneEntryOf(n)[1])),
                            float(HypoEntryOf(n)[1])),
                       gen.rate_scaling_factor)
        /\ (gen.started_by = "iter_ruptures" =>
              gen.rate_scaling_factor = Q(1, 1))
        /\ ((gen.state # "created" /\ RLe(gen.rate_scaling_factor, Zero)) =>
              (gen.state = "AssertionError" /\ ruptures = <<>>))

\* ruptures were yielded with their rates scaled by a factor other than 1
C4_Witness ==
    /\ Enumerating
    /\ gen.rate_scaling_factor = Q(1, 2)
    /\ Len(ruptures) >= 2

\* C5: the constructor raises ValueError exactly when the upper depth is
\* negative, or the lower depth is not greater than the upper depth, or a
\* hypocenter depth is outside [upper, lower]; otherwise it returns and
\* the object holds the depths and the distributions it was given.
C5_InvalidDepthRange ==
    call.fn = "__init__" =>
        LET upper == call.args.upper_seismogenic_depth
            lower == call.args.lower_seismogenic_depth
            data == call.args.hypocenter_distribution
            invalid ==
                \/ upper[1] < 0
                \/ ~(lower[1] * upper[2] > upper[1] * lower[2])
                \/ \E n \in 1..Len(data) :
                      \/ data[n][2][1] * upper[2] < upper[1] * data[n][2][2]
                      \/ data[n][2][1] * lower[2] > lower[1] * data[n][2][2]
        IN IF invalid
           THEN ret = Raised("ValueError") /\ ~self.constructed
           ELSE /\ ret.status = "returned"
                /\ self.constructed
                /\ self.upper_seismogenic_depth = upper
                /\ self.lower_seismogenic_depth = lower
                /\ self.hypocenter_distribution = data
                /\ self.nodal_plane_distribution
                     = call.args.nodal_plane_distribution
                /\ self.location = call.args.location

\* the depth range is valid and a hypocenter is below the lower depth
C5_Witness ==
    /\ call.fn = "__init__"
    /\ ret = Raised("ValueError")
    /\ call.args.upper_seismogenic_depth = Zero
    /\ call.args.lower_seismogenic_depth = Q(6, 1)

\* the squared horizontal distance between two points
DistanceSquared(a, b) ==
    RAdd(RMul(RSub(a.longitude, b.longitude), RSub(a.longitude, b.longitude)),
         RMul(RSub(a.latitude, b.latitude), RSub(a.latitude, b.latitude)))

\* C10 as stated: every corner of every rupture surface that iter_ruptures
\* yields lies, horizontally, within the maximum rupture projection radius
\* of the source location.
C10_RupturesInsideEnclosingCircle ==
    (Enumerating /\ gen.started_by = "iter_ruptures") =>
        \A n \in 1..Len(ruptures) :
            \A corner \in Corners(ruptures[n].surface) :
                RLe(DistanceSquared(corner, self.location),
                    _get_max_rupture_projection_radius_squared(self))

(***************************************************************************)
(* openquake/hazardlib/source/complex_fault.py : _float_ruptures, which    *)
(* the tests of tests/source/complex_fault_test.py call.  The arrays are   *)
(* sequences of rows; rows and columns are counted from 0 as in the code.  *)
(* At every offset the number of columns is the one whose accumulated      *)
(* length is nearest to rupture_length and the number of rows the one      *)
(* whose accumulated area is nearest to rupture_area (numpy.argmin of the  *)
(* absolute difference, the first one on a tie), which is what the         *)
(* expected slices of the three tests pin down.  The function only adds    *)
(* and compares areas and lengths: they are held here as whole numbers of  *)
(* tenths (of km2 and of km), so 3.1 is 31 and a unit cell is 10.          *)
(***************************************************************************)
MaxRows == 2        \* most rows of cells of a drawn mesh
MaxCols == 2        \* most columns of cells of a drawn mesh
MaxCalls == 2       \* most calls of _float_ruptures on the same arrays

\* slice(start, stop) and slice(None)
slice(start, stop) == [kind |-> "slice", start |-> start, stop |-> stop]
slice_None == [kind |-> "all"]

RECURSIVE Sum(_)
Sum(s) == IF s = <<>> THEN 0 ELSE s[1] + Sum(Tail(s))

\* numpy.add.accumulate
RECURSIVE accumulate_from(_, _, _)
accumulate_from(s, n, total) ==
    IF n > Len(s) THEN <<>>
    ELSE <<total + s[n]>> \o accumulate_from(s, n + 1, total + s[n])

accumulate(s) == accumulate_from(s, 1, 0)

\* numpy.argmin(numpy.abs(acc - target)), counted from 1
argmin_abs(acc, target) ==
    CHOOSE i \in 1..Len(acc) :
        /\ \A j \in 1..Len(acc) :
              Abs(acc[i] - target) <= Abs(acc[j] - target)
        /\ \A j \in 1..(i - 1) :
              Abs(acc[i] - target) < Abs(acc[j] - target)

\* numpy.add.accumulate(cell_length[row, col:])
lengths_acc(cell_length, row, col) ==
    accumulate(SubSeq(cell_length[row + 1], col + 1, Len(cell_length[1])))

\* numpy.add.accumulate(numpy.sum(cell_area[row:, col:last_col], axis=1))
row_areas_acc(cell_area, row, col, last_col) ==
    accumulate([r \in 1..(Len(cell_area) - row) |->
                   Sum(SubSeq(cell_area[row + r], col + 1, last_col))])

\* numpy.add.accumulate(numpy.sum(cell_area[:, col:], axis=0))
col_areas_acc(cell_area, col) ==
    accumulate([c \in 1..(Len(cell_area[1]) - col) |->
                   Sum([r \in 1..Len(cell_area) |-> cell_area[r][col + c]])])

total_area(cell_area) ==
    Sum([r \in 1..Len(cell_area) |-> Sum(cell_area[r])])

RECURSIVE float_from(_, _, _, _, _, _, _, _)

append_slices_past_last_col(rupture_area, rupture_length, cell_area, cell_length, row, col, dead_ends, rupture_slices, last_row, last_col) ==
    float_from(rupture_area, rupture_length, cell_area, cell_length,
               row, col + 1, dead_ends,
               Append(rupture_slices,
                      <<slice(row, last_row + 1), slice(col, last_col + 2)>>))

\* rupture_slices.append((slice(row, last_row + 1), slice(col, last_col + 1)))
\* and on to the next column
append_slices(rupture_area, rupture_length, cell_area, cell_length, row, col, dead_ends, rupture_slices, last_row, last_col) ==
    float_from(rupture_area, rupture_length, cell_area, cell_length,
               row, col + 1, dead_ends,
               Append(rupture_slices,
                      <<slice(row, last_row + 1), slice(col, last_col + 1)>>))

extend_along_length_one_column_less(rupture_area, rupture_length, cell_area, cell_length, row, col, dead_ends, rupture_slices, last_row, areas_acc, rup_cols) ==
    IF rup_cols + col = Len(cell_area[1])
       /\ areas_acc[rup_cols] < rupture_area
    THEN rupture_slices
    ELSE append_slices(rupture_area, rupture_length, cell_area, cell_length,
                       row, col, dead_ends, rupture_slices, last_row,
                       rup_cols - 1 + col)

\* the first row does not fit along width: try to extend along length
extend_along_length(rupture_area, rupture_length, cell_area, cell_length, row, col, dead_ends, rupture_slices, last_row, areas_acc, rup_cols) ==
    IF rup_cols + col = Len(cell_area[1])
       /\ areas_acc[rup_cols] < rupture_area
    THEN rupture_slices
    ELSE append_slices(rupture_area, rupture_length, cell_area, cell_length,
                       row, col, dead_ends, rupture_slices, last_row,
                       rup_cols + col)

float_rows_without_dead_ends(rupture_area, rupture_length, cell_area, cell_length, row, col, dead_ends, rupture_slices, last_col, areas_acc, rup_rows) ==
    IF rup_rows + row = Len(cell_area)
       /\ areas_acc[rup_rows] < rupture_area
       /\ row = 0
    THEN IF last_col = Len(cell_area[1])
         THEN rupture_slices
         ELSE extend_along_length(
                  rupture_area, rupture_length, cell_area, cell_length,
                  row, col, dead_ends, rupture_slices, rup_rows + row,
                  col_areas_acc(cell_area, col),
                  argmin_abs(col_areas_acc(cell_area, col), rupture_area))
    ELSE append_slices(rupture_area, rupture_length, cell_area, cell_length,
                       row, col, dead_ends, rupture_slices, rup_rows + row,
                       last_col)

\* the number of rows is known
float_rows(rupture_area, rupture_length, cell_area, cell_length, row, col, dead_ends, rupture_slices, last_col, areas_acc, rup_rows) ==
    IF rup_rows + row = Len(cell_area)
       /\ areas_acc[rup_rows] < rupture_area
    THEN IF row = 0
         THEN IF last_col = Len(cell_area[1])
              THEN rupture_slices
              ELSE extend_along_length(
                       rupture_area, rupture_length, cell_area, cell_length,
                       row, col, dead_ends, rupture_slices, rup_rows + row,
                       col_areas_acc(cell_area, col),
                       argmin_abs(col_areas_acc(cell_area, col),
                                  rupture_area))
         ELSE append_slices(rupture_area, rupture_length, cell_area,
                            cell_length, row, col, dead_ends \cup {col},
                            rupture_slices, rup_rows + row, last_col)
    ELSE append_slices(rupture_area, rupture_length, cell_area, cell_length,
                       row, col, dead_ends, rupture_slices, rup_rows + row,
                       last_col)

float_cols_without_break(rupture_area, rupture_length, cell_area, cell_length, row, col, dead_ends, rupture_slices, lengths, rup_cols) ==
    float_rows(rupture_area, rupture_length, cell_area, cell_length,
               row, col, dead_ends, rupture_slices, rup_cols + col,
               row_areas_acc(cell_area, row, col, rup_cols + col),
               argmin_abs(row_areas_acc(cell_area, row, col, rup_cols + col),
                          rupture_area))

\* the number of columns is known
float_cols(rupture_area, rupture_length, cell_area, cell_length, row, col, dead_ends, rupture_slices, lengths, rup_cols) ==
    IF rup_cols + col = Len(cell_area[1])
       /\ lengths[rup_cols] < rupture_length
       /\ col # 0
    THEN float_from(rupture_area, rupture_length, cell_area, cell_length,
                    row + 1, 0, dead_ends, rupture_slices)
    ELSE float_rows(rupture_area, rupture_length, cell_area, cell_length,
                    row, col, dead_ends, rupture_slices, rup_cols + col,
                    row_areas_acc(cell_area, row, col, rup_cols + col),
                    argmin_abs(row_areas_acc(cell_area, row, col,
                                             rup_cols + col),
                               rupture_area))

\* the loops over the rows and the columns, resumed at (row, col)
float_from(rupture_area, rupture_length, cell_area, cell_length, row, col, dead_ends, rupture_slices) ==
    IF row >= Len(cell_length) THEN rupture_slices
    ELSE IF col >= Len(cell_length[1])
    THEN float_from(rupture_area, rupture_length, cell_area, cell_length,
                    row + 1, 0, dead_ends, rupture_slices)
    ELSE IF col \in dead_ends
    THEN float_from(rupture_area, rupture_length, cell_area, cell_length,
                    row, col + 1, dead_ends, rupture_slices)
    ELSE float_cols(rupture_area, rupture_length, cell_area, cell_length,
                    row, col, dead_ends, rupture_slices,
                    lengths_acc(cell_length, row, col),
                    argmin_abs(lengths_acc(cell_length, row, col),
                               rupture_length))

_float_ruptures(rupture_area, rupture_length, cell_area, cell_length) ==
    IF total_area(cell_area) <= rupture_area
    THEN <<slice_None>>
    ELSE float_from(rupture_area, rupture_length, cell_area, cell_length,
                    0, 0, {}, <<>>)

\* one call: the slices it returns and the two arrays as it leaves them.
\* No statement of the function assigns to an element of its arguments.
float_ruptures_call_accumulating_in_place(args) ==
    [value |-> _float_ruptures(args[1], args[2], args[3], args[4]),
     cell_area |-> [r \in 1..Len(args[3]) |-> accumulate(args[3][r])],
     cell_length |-> args[4]]

float_ruptures_call(args) ==
    [value |-> _float_ruptures(args[1], args[2], args[3], args[4]),
     cell_area |-> args[3],
     cell_length |-> args[4]]

(***************************************************************************)
(* Inputs of _float_ruptures: the calls of the three tests of              *)
(* FloatRupturesTestCase, and every mesh of at most MaxRows x MaxCols      *)
(* cells with the cell areas and the uniform cell lengths below.           *)
(***************************************************************************)
FloatCall(rupture_area, rupture_length, cell_area, cell_length) ==
    [fn |-> "_float_ruptures",
     args |-> <<rupture_area, rupture_length, cell_area, cell_length>>]

uniform_array(nrows, ncols, v) == [r \in 1..nrows |-> [c \in 1..ncols |-> v]]

\* test_reshaping_along_length
reshaping_along_length_call(rupture_area) ==
    FloatCall(rupture_area, 10,
              uniform_array(2, 3, 10), uniform_array(2, 3, 10))

\* test_reshaping_along_width
reshaping_along_width_call ==
    FloatCall(130, 120,
              <<(<<40, 40>>), (<<40, 40>>),
                (<<20, 20>>)>>,
              uniform_array(3, 2, 20))

\* test_varying_width
varying_width_call ==
    FloatCall(21, 10,
              <<(<<10, 10, 10>>),
                (<<10, 1, 10>>),
                (<<10, 1, 10>>)>>,
              uniform_array(3, 3, 10))

TestFloatCalls ==
    {reshaping_along_length_call(31),
     reshaping_along_length_call(42),
     reshaping_along_width_call, varying_width_call}

FloatAreas == {10, 21, 31, 42, 130}
FloatLengths == {10, 15, 120}
CellAreas == {1, 10}
CellLengths == {10, 20}

InitFloat ==
    /\ \/ call \in TestFloatCalls
       \/ \E nrows \in 1..MaxRows, ncols \in 1..MaxCols :
              \E cell_area \in [1..nrows -> [1..ncols -> CellAreas]],
                 len \in CellLengths,
                 rupture_area \in FloatAreas, rupture_length \in FloatLengths :
                  call = FloatCall(rupture_area, rupture_length, cell_area,
                                   uniform_array(nrows, ncols, len))
    /\ ret = Pending
    /\ self = NoSource
    /\ gen = NoGenerator
    /\ ruptures = <<>>

\* _float_ruptures(rupture_area, rupture_length, cell_area, cell_length),
\* called on the arrays as the previous call left them; ruptures holds the
\* lists of slices returned so far
CallFloatRuptures ==
    /\ call.fn = "_float_ruptures"
    /\ Len(ruptures) < MaxCalls
    /\ \E done \in {float_ruptures_call(call.args)} :
        /\ ret' = Returned(done.value)
        /\ ruptures' = Append(ruptures, done.value)
        /\ call' = [call EXCEPT !.args = <<call.args[1], call.args[2],
                                           done.cell_area, done.cell_length>>]
    /\ UNCHANGED <<self, gen>>

NextFloat == CallFloatRuptures

SpecFloat == InitFloat /\ [][NextFloat]_vars

(***************************************************************************)
(* Claims about _float_ruptures, checked under SpecFloat.                  *)
(***************************************************************************)
FloatReturned == call.fn = "_float_ruptures" /\ ret.status = "returned"

\* the slices a test expects, as <<row start, row stop, col start, col stop>>
Slices(quads) ==
    [n \in 1..Len(quads) |->
        <<slice(quads[n][1], quads[n][2]), slice(quads[n][3], quads[n][4])>>]

RuptureArea == call.args[1]
RuptureLength == call.args[2]
CellArea == call.args[3]
CellLength == call.args[4]
NRows == Len(CellLength)
NCols == Len(CellLength[1])

\* the call returned windows, not the single slice(None) of a rupture at
\* least as large as the whole mesh
WindowsReturned == FloatReturned /\ ret.value # <<slice_None>>

\* a window is a pair of slices of node indices: it covers the cells of the
\* rows start .. stop - 2 and of the columns start .. stop - 2
WindowRows(w) == (w[1].start + 1)..(w[1].stop - 1)
WindowCols(w) == (w[2].start + 1)..(w[2].stop - 1)
Shape(w) == <<w[1].stop - w[1].start, w[2].stop - w[2].start>>

RECURSIVE SumOver(_, _, _)
SumOver(array, r, cols) ==
    IF cols = {} THEN 0
    ELSE array[r][SetMin(cols)] + SumOver(array, r, cols \ {SetMin(cols)})

RECURSIVE SumRows(_, _, _)
SumRows(array, rows, cols) ==
    IF rows = {} THEN 0
    ELSE SumOver(array, SetMin(rows), cols)
           + SumRows(array, rows \ {SetMin(rows)}, cols)

\* the cumulative cell area of a window, and its cumulative along-length
\* size on its top row
WindowArea(w) == SumRows(CellArea, WindowRows(w), WindowCols(w))
WindowLength(w) == SumOver(CellLength, w[1].start + 1, WindowCols(w))

InsideGrid(w) ==
    /\ 0 <= w[1].start /\ w[1].start + 2 <= w[1].stop
    /\ w[1].stop <= NRows + 1
    /\ 0 <= w[2].start /\ w[2].start + 2 <= w[2].stop
    /\ w[2].stop <= NCols + 1

UniformGrid ==
    \A r \in 1..NRows : \A c \in 1..NCols :
        CellArea[r][c] = CellArea[1][1] /\ CellLength[r][c] = CellLength[1][1]

\* the number of columns chosen from ruptureLength at the first offset, and
\* whether that column span reaches ruptureArea using all rows
BaseCols ==
    argmin_abs([c \in 1..NCols |-> SumOver(CellLength, 1, 1..c)],
               RuptureLength)
BaseColsReachLength ==
    RuptureLength <= SumOver(CellLength, 1, 1..BaseCols)
BaseColsReachArea ==
    RuptureArea <= SumRows(CellArea, 1..NRows, 1..BaseCols)

\* the number of columns whose area over all rows is nearest to ruptureArea
WidenedCols ==
    argmin_abs([c \in 1..NCols |-> SumRows(CellArea, 1..NRows, 1..c)],
               RuptureArea)

SameShapeShiftedByOneColumn ==
    /\ \A n \in 1..Len(ret.value) : Shape(ret.value[n]) = Shape(ret.value[1])
    /\ \A n \in 1..(Len(ret.value) - 1) :
          /\ ret.value[n + 1][1].start = ret.value[n][1].start
          /\ ret.value[n + 1][2].start = ret.value[n][2].start + 1

ReshapingAlongLengthExpected ==
    /\ call = reshaping_along_length_call(31) =>
           ret.value = Slices(<<(<<0, 3, 0, 3>>), (<<0, 3, 1, 4>>)>>)
    /\ call = reshaping_along_length_call(42) =>
           ret.value = Slices(<<(<<0, 3, 0, 3>>)>>)

Offset(w) == <<w[1].start, w[2].start>>
RowMajorBefore(a, b) == a[1] < b[1] \/ (a[1] = b[1] /\ a[2] < b[2])
NodeRows(w) == w[1].stop - w[1].start

\* the area of the window of the shape of v at the offset of w (as much of
\* it as the mesh holds)
AreaOfShapeAt(w, v) ==
    SumRows(CellArea,
            {r \in 1..NRows :
                w[1].start + 1 <= r /\ r <= w[1].start + NodeRows(v) - 1},
            {c \in 1..NCols :
                w[2].start + 1 <= c
                    /\ c <= w[2].start + (v[2].stop - v[2].start) - 1})

\* of two windows next to each other in a row of offsets, a taller one
\* starts where the shape of the other falls short of ruptureArea
TallerWhereShort(w, v) ==
    (w[1].start = v[1].start /\ NodeRows(w) > NodeRows(v)) =>
        AreaOfShapeAt(w, v) < RuptureArea

RowsShorterThanRupture ==
    \A r \in 1..NRows : SumOver(CellLength, r, 1..NCols) < RuptureLength

\* no other number of rows at the offset of w, over its columns, has an area
\* nearer to ruptureArea
RowsChosenFromArea(w) ==
    \A stop \in (w[1].start + 2)..(NRows + 1) :
        Abs(WindowArea(w) - RuptureArea)
            <= Abs(SumRows(CellArea, (w[1].start + 1)..(stop - 1),
                           WindowCols(w)) - RuptureArea)

\* C14: when ruptureLength exceeds the along-length size of a mesh row,
\* every returned window starts at column offset 0 and spans all columns;
\* the windows are floated along rows only, one per row offset from 0 on,
\* each with the number of rows chosen from ruptureArea;
\* test_reshaping_along_width returns exactly its two windows.
C14_ReshapingAlongWidth ==
    WindowsReturned =>
        /\ RowsShorterThanRupture =>
              \A n \in 1..Len(ret.value) :
                  /\ ret.value[n][2] = slice(0, NCols + 1)
                  /\ ret.value[n][1].start = n - 1
                  /\ RowsChosenFromArea(ret.value[n])
        /\ call = reshaping_along_width_call =>
              ret.value = Slices(<<(<<0, 3, 0, 3>>), (<<1, 4, 0, 3>>)>>)

\* test_reshaping_along_width returned its two windows
C14_Witness ==
    /\ WindowsReturned
    /\ call = reshaping_along_width_call
    /\ RowsShorterThanRupture
    /\ Len(ret.value) = 2

MaxLen == 4         \* longest sequence of points drawn for a line

\* lines 31-33, from the n-th point on
RECURSIVE clean_points_loop_dropping_all_repeats(_, _, _)
clean_points_loop_dropping_all_repeats(points, n, result) ==
    IF n > Len(points) THEN result
    ELSE clean_points_loop_dropping_all_repeats(
             points, n + 1,
             IF points[n] \notin Range(result)
             THEN Append(result, points[n]) ELSE result)

RECURSIVE clean_points_loop(_, _, _)
clean_points_loop(points, n, result) ==
    IF n > Len(points) THEN result
    ELSE clean_points_loop(
             points, n + 1,
             IF points[n] # result[Len(result)]
             THEN Append(result, points[n]) ELSE result)

clean_points(points) ==
    IF points = <<>> THEN points
    ELSE clean_points_loop(points, 1, <<points[1]>>)

(***************************************************************************)
(* nhe/geo/_utils.py : line_intersects_itself                              *)
(* The answers of shapely's LineString.is_simple for the projected line    *)
(* and for the line rolled by one point are inputs: is_simple and          *)
(* is_simple_rolled.  The value returned here is the pair of the function's *)
(* result and the number of bounding boxes it computed.                    *)
(***************************************************************************)
\* lines 63-72
line_is_not_simple(closed_shape, is_simple, is_simple_rolled) ==
    IF ~is_simple THEN TRUE
    ELSE IF closed_shape /\ ~is_simple_rolled THEN TRUE
    ELSE FALSE

\* lines 60-72: the bounding box is computed, its failure is the call's
after_bounding_box(bounding_box, closed_shape, is_simple, is_simple_rolled) ==
    IF bounding_box.status = "raised" THEN bounding_box
    ELSE Returned(<<line_is_not_simple(closed_shape, is_simple,
                                       is_simple_rolled), 1>>)

line_intersects_itself_without_shortcut(lons, lats, closed_shape, is_simple, is_simple_rolled) ==
    IF Len(lons) # Len(lats) THEN Raised("AssertionError")
    ELSE IF Len(lons) = 0 THEN Returned(<<FALSE, 0>>)
    ELSE after_bounding_box(get_spherical_bounding_box(lons, lats),
                            closed_shape, is_simple, is_simple_rolled)

line_intersects_itself(lons, lats, closed_shape, is_simple, is_simple_rolled) ==
    IF Len(lons) # Len(lats) THEN Raised("AssertionError")
    ELSE IF Len(lons) <= 3 THEN Returned(<<FALSE, 0>>)
    ELSE after_bounding_box(get_spherical_bounding_box(lons, lats),
                            closed_shape, is_simple, is_simple_rolled)

(***************************************************************************)
(* Inputs of clean_points and line_intersects_itself, and the              *)
(* specification of the two: a call is drawn, then the function is applied *)
(* to it.                                                                  *)
(***************************************************************************)
\* the points of the docstring of clean_points
PointA == Point(1, 2, 3)
PointB == Point(3, 4, 5)
PointC == Point(5, 6, 7)
DocstringPoints == <<PointA, PointA, PointA, PointB, PointA, PointC, PointC>>

LineLons == {-135, -45, 0, 45, 135}
LineLat == 80

InitLine ==
    /\ \/ call = [fn |-> "clean_points", args |-> <<DocstringPoints>>]
       \/ \E n \in 0..MaxLen :
              \E points \in [1..n -> {PointA, PointB, PointC}] :
                  call = [fn |-> "clean_points", args |-> <<points>>]
       \/ \E n \in 0..MaxLen, extra \in {0, 1}, closed_shape \in BOOLEAN :
              \E lons \in [1..n -> LineLons] :
                  call = [fn |-> "line_intersects_itself",
                          args |-> <<lons, [i \in 1..(n + extra) |-> LineLat],
                                     closed_shape>>]
    /\ ret = Pending
    /\ self = NoSource
    /\ gen = NoGenerator
    /\ ruptures = <<>>

CallCleanPoints ==
    /\ call.fn = "clean_points"
    /\ ret.status = "pending"
    /\ ret' = Returned(clean_points(call.args[1]))
    /\ UNCHANGED <<call, self, gen, ruptures>>

CallLineIntersectsItself ==
    /\ call.fn = "line_intersects_itself"
    /\ ret.status = "pending"
    /\ \E is_simple \in BOOLEAN, is_simple_rolled \in BOOLEAN :
           ret' = line_intersects_itself(call.args[1], call.args[2],
                                         call.args[3], is_simple,
                                         is_simple_rolled)
    /\ UNCHANGED <<call, self, gen, ruptures>>

NextLine == CallCleanPoints \/ CallLineIntersectsItself

SpecLine == InitLine /\ [][NextLine]_vars

(***************************************************************************)
(* C15                                                                     *)
(***************************************************************************)
\* the positions of points that differ from the point just before them
KeptPositions(points) ==
    {i \in 1..Len(points) : i = 1 \/ points[i] # points[i - 1]}

KeptPosition(points, k) ==
    CHOOSE i \in KeptPositions(points) :
        Cardinality({j \in KeptPositions(points) : j <= i}) = k

AdjacentDuplicatesCleaned(points, result) ==
    /\ points = <<>> => result = points
    /\ points # <<>> => result[1] = points[1]
    /\ Len(result) = Cardinality(KeptPositions(points))
    /\ \A k \in 1..Len(result) : result[k] = points[KeptPosition(points, k)]
    /\ \A k \in 1..(Len(result) - 1) : result[k] # result[k + 1]
    /\ points = DocstringPoints => result = <<PointA, PointB, PointA, PointC>>

LineDone ==
    /\ call.fn = "line_intersects_itself"
    /\ ret.status # "pending"
    /\ Len(call.args[1]) = Len(call.args[2])

MidPoint(a, b) ==
    Point(RDiv(RAdd(a.longitude, b.longitude), Q(2, 1)),
          RDiv(RAdd(a.latitude, b.latitude), Q(2, 1)),
          RDiv(RAdd(a.depth, b.depth), Q(2, 1)))

\* the centre of a returned surface: the middle of its diagonal
SurfaceCenter(surface) == MidPoint(surface.top_left, surface.bottom_right)

\* half of the rupture's height, width * sin(dip) / 2, for the call's
\* magnitude and nodal plane
HalfHeight ==
    RDiv(RMul(_get_rupture_dimensions(self, call.args[1], call.args[2])[2],
              Sin(call.args[2].dip)),
         Q(2, 1))

\* the edges of the rupture centred on the hypocenter
CenteredTop == RSub(call.args[3].depth, HalfHeight)
CenteredBottom == RAdd(call.args[3].depth, HalfHeight)

CenteredRuptureFits ==
    /\ RLe(self.upper_seismogenic_depth, CenteredTop)
    /\ RLe(CenteredBottom, self.lower_seismogenic_depth)

\* the centre is the hypocenter moved by vshift vertically and by
\* |vshift / tan(dip)| horizontally along the azimuth
MovedAlong(hypocenter, center, vshift, dip, azimuth) ==
    center = point_at(hypocenter,
                      RAbs(RDiv(RMul(vshift, Cos(dip)), Sin(dip))),
                      vshift, azimuth)

ShiftPolicy(surface, hypocenter, nodal_plane, center, vshift) ==
    /\ (vshift = Zero) <=> CenteredRuptureFits
    /\ vshift = Zero => center = hypocenter
    /\ RLt(CenteredTop, self.upper_seismogenic_depth) =>
           /\ RLt(Zero, vshift)
           /\ MovedAlong(hypocenter, center, vshift, nodal_plane.dip,
                         (nodal_plane.strike + 90) % 360)
           /\ surface.top_left.depth = self.upper_seismogenic_depth
           /\ surface.top_right.depth = self.upper_seismogenic_depth
    /\ (/\ ~RLt(CenteredTop, self.upper_seismogenic_depth)
        /\ RLt(self.lower_seismogenic_depth, CenteredBottom)) =>
           /\ RLt(vshift, Zero)
           /\ MovedAlong(hypocenter, center, vshift, nodal_plane.dip,
                         (nodal_plane.strike + 270) % 360)
           /\ surface.bottom_left.depth = self.lower_seismogenic_depth
           /\ surface.bottom_right.depth = self.lower_seismogenic_depth

\* C18: the centre of the returned surface stays at the hypocenter (vshift
\* = 0) exactly when the rupture centred on the hypocenter fits inside
\* [upper, lower]; if its top edge would be shallower than the upper depth
\* the centre is moved by vshift > 0 along the azimuth (strike + 90) % 360
\* and the top edge is exactly at the upper depth; otherwise, if its bottom
\* edge would be deeper than the lower depth, the centre is moved by
\* vshift < 0 along (strike + 270) % 360 and the bottom edge is exactly at
\* the lower depth; the horizontal move is |vshift / tan(dip)|.
C18_VerticalShiftPolicy ==
    SurfaceReturned =>
        ShiftPolicy(ret.value, call.args[3], call.args[2],
                    SurfaceCenter(ret.value),
                    RSub(SurfaceCenter(ret.value).depth, call.args[3].depth))

\* the rupture was moved down along a dipping plane: its centre is below
\* the hypocenter and beside it
C18_Witness ==
    /\ SurfaceReturned
    /\ RLt(CenteredTop, self.upper_seismogenic_depth)
    /\ call.args[2].dip = 37
    /\ ret.value.top_left.depth = self.upper_seismogenic_depth
    /\ RLt(call.args[3].depth, SurfaceCenter(ret.value).depth)
    /\ SurfaceCenter(ret.value).longitude # call.args[3].longitude

\* the depth of the rupture centre of lines 294-302
CenterDepth ==
    RAdd(call.args[3].depth,
         rupture_vshift(self, call.args[3], HalfHeight))

HypocenterOnSurfaceInDepth(surface, hypocenter) ==
    /\ surface.top_left.depth = RSub(CenterDepth, HalfHeight)
    /\ surface.top_right.depth = RSub(CenterDepth, HalfHeight)
    /\ surface.bottom_left.depth = RAdd(CenterDepth, HalfHeight)
    /\ surface.bottom_right.depth = RAdd(CenterDepth, HalfHeight)
    /\ RLe(surface.top_left.depth, hypocenter.depth)
    /\ RLe(hypocenter.depth, surface.bottom_left.depth)

\* C19: on every surface that _get_rupture_surface returns the hypocenter
\* lies between the top edge and the bottom edge in depth; the two top
\* corners are at the depth centre - height / 2 and the two bottom corners
\* at centre + height / 2, with height = width * sin(dip) and centre the
\* depth of the rupture centre, shifted or not.
C19_HypocenterOnSurface ==
    SurfaceReturned => HypocenterOnSurfaceInDepth(ret.value, call.args[3])

\* the rupture was moved up along a dipping plane and the hypocenter is
\* strictly between its edges, below its centre
C19_Witness ==
    /\ SurfaceReturned
    /\ call.args[2].dip = 53
    /\ RLt(CenterDepth, call.args[3].depth)
    /\ RLt(ret.value.top_right.depth, call.args[3].depth)
    /\ RLt(call.args[3].depth, ret.value.bottom_right.depth)

(***************************************************************************)
(* C20, checked under Spec.                                                *)
(***************************************************************************)
\* the assert of _get_rupture_surface, lines 252-253, for the hypocenter
\* depth of the k-th entry of the source's table
DepthPrecondition(k) ==
    /\ RLe(self.upper_seismogenic_depth, self.hypocenter_distribution[k][2])
    /\ RLe(self.hypocenter_distribution[k][2], self.lower_seismogenic_depth)

\* the enumeration stopped at the assert of line 182, before any rupture
FailedOnScalingFactor ==
    /\ gen.state = "AssertionError"
    /\ gen.surface_calls = 0
    /\ ruptures = <<>>
    /\ ~RLt(Zero, gen.rate_scaling_factor)

\* C20: a constructed source never fails the depth assert of
\* _get_rupture_surface while its ruptures are enumerated: every hypocenter
\* depth of its table is within [upper, lower], every call of
\* _get_rupture_surface has returned a surface, an enumeration that failed
\* did so on a non-positive rate scaling factor before its first rupture
\* (never under iter_ruptures), and an enumeration that ended has yielded
\* the full sequence.
C20_EnumerationNeverFailsOnDepth ==
    Enumerating =>
        /\ \A k \in 1..ND : DepthPrecondition(k)
        /\ gen.surface_calls = Len(ruptures)
        /\ gen.state = "AssertionError" => FailedOnScalingFactor
        /\ gen.started_by = "iter_ruptures" => gen.state # "AssertionError"
        /\ gen.state = "exhausted" => Len(ruptures) = NM * NP * ND

\* a finished enumeration of a source with hypocenters at both its upper
\* and its lower seismogenic depth
C20_Witness ==
    /\ Enumerating
    /\ gen.started_by = "iter_ruptures"
    /\ gen.state = "exhausted"
    /\ \E k \in 1..ND :
           self.hypocenter_distribution[k][2] = self.upper_seismogenic_depth
    /\ \E k \in 1..ND :
           self.hypocenter_distribution[k][2] = self.lower_seismogenic_depth
    /\ Len(ruptures) = NM * NP * ND

(***************************************************************************)
(* C21, checked under SpecGeo.                                             *)
(***************************************************************************)
\* the test of line 148: the pair of the smallest and the largest longitude
\* has a negative extent
AntimeridianBranchEntered(lons) ==
    get_longitudinal_extent(SetMin(Range(lons)), SetMax(Range(lons))) < 0

LonsInRange(lons) ==
    \A i \in 1..Len(lons) : -180 < lons[i] /\ lons[i] <= 180

\* C21: for a non-empty collection of points whose longitudes are all in
\* (-180, 180] the bounding box either is returned or fails with the
\* RuntimeError of an extent wider than 180 degrees, and in no other way;
\* whenever the smallest and the largest longitude have a negative extent
\* some longitude is > 0 and some is < 0, so that the min and the max of
\* lines 152-153 are never taken over nothing, also when a longitude is 0
\* or 180.
C21_BoundingBoxFailsOnlyAsAmbiguous ==
    (/\ BoxDone
     /\ Len(call.args[1]) >= 1
     /\ LonsInRange(call.args[1])) =>
        /\ ret.status = "returned" \/ ret = Raised("RuntimeError")
        /\ AntimeridianBranchEntered(call.args[1]) =>
               /\ PositiveLons(call.args[1]) # {}
               /\ NegativeLons(call.args[1]) # {}

\* the branch was entered for longitudes of which the only positive one is
\* 180 and one is 0
C21_Witness ==
    /\ BoxDone
    /\ AntimeridianBranchEntered(call.args[1])
    /\ 0 \in Range(call.args[1])
    /\ PositiveLons(call.args[1]) = {180}
    /\ ret.status \in {"returned", "raised"}

====
